---------------------------- MODULE Spec2Model ----------------------------
(***************************************************************************)
(* Model of monitoramento.py: the /get_token_stats endpoint (get_stats)    *)
(* and the query construction of run_analytics_query.                      *)
(*                                                                         *)
(* The KQL text the code assembles by string interpolation is kept in      *)
(* structured form, clause by clause:                                      *)
(*   extend_expressions  "name = cast(msg_data.field)"  -> [name,cast,field]*)
(*   where_conditions    "isnotnull(msg_data.field)"    -> field           *)
(*   group_by_columns    column names                                      *)
(*   summarize           "out = fn(input) by keys"      -> [output,fn,     *)
(*                                                          input,by]     *)
(*   order by            "col asc|desc"                 -> [column,dir]    *)
(***************************************************************************)
EXTENDS Naturals, Integers, Sequences, FiniteSets, TLC

VARIABLES
    app_insights_workspace_id, \* module global read from the environment
    pc,                        \* position of the handler: idle / querying / responded
    request,                   \* query parameters of the request being served
    kql_query,                 \* the query text built for the request ("" when none)
    response                   \* what the endpoint answers

vars == <<app_insights_workspace_id, pc, request, kql_query, response>>

---------------------------------------------------------------------------
(* Bounds of the model *)

MaxDias == 2       \* dias is drawn from -1 .. MaxDias
MaxRows == 1       \* number of rows a result table carries, 0 .. MaxRows

---------------------------------------------------------------------------
(* Parameter domains of get_stats *)

ColunasAlvo == {"tokens_entrada", "tokens_saida", "job_id"}

Operacoes == {"avg", "sum", "count", "min", "max", "dcount"}

DiasValues == (-1) .. MaxDias

Requests ==
    [dias : DiasValues, coluna_alvo : ColunasAlvo, op : Operacoes,
     agrupar_por_modelo : BOOLEAN, analisar_por_job : BOOLEAN,
     resultado_diario : BOOLEAN]

NoRequest == [dias |-> 0, coluna_alvo |-> "", op |-> "",
              agrupar_por_modelo |-> FALSE, analisar_por_job |-> FALSE,
              resultado_diario |-> FALSE]

(* kql_query = "" *)
EmptyQuery == [extend |-> <<>>, where |-> <<>>, summarize |-> <<>>, order_by |-> <<>>]

NoResponse == [status |-> 0, detail |-> "", records |-> 0]

NoError == [status |-> 0, detail |-> ""]

---------------------------------------------------------------------------
(* The HTTPExceptions the code raises *)

metric_job_id_requires_count_or_dcount ==
    [status |-> 400,
     detail |-> "A operacao para 'coluna_alvo=job_id' deve ser 'count' ou 'dcount'."]

sum_incompatible_with_job_analysis ==
    [status |-> 400,
     detail |-> "A operacao 'sum' nao e permitida com 'analisar_por_job=True'."]

workspace_not_configured ==
    [status |-> 500,
     detail |-> "LOG_ANALYTICS_WORKSPACE_ID nao esta configurado no servidor."]

query_failed ==
    [status |-> 500, detail |-> "Erro ao consultar o Log Analytics"]

(* FastAPI rejects dias <= 0 (Query(gt=0)) before the handler body runs *)
dias_validation_error ==
    [status |-> 422, detail |-> "dias: greater_than 0"]

---------------------------------------------------------------------------
(* get_stats: default name of the output column *)

(* str.capitalize(): first character upper case, the rest lower case *)
Capitalize(s) ==
    CASE s = "avg"    -> "Avg"
      [] s = "sum"    -> "Sum"
      [] s = "count"  -> "Count"
      [] s = "min"    -> "Min"
      [] s = "max"    -> "Max"
      [] s = "dcount" -> "Dcount"
      [] OTHER        -> s

coluna_saida(coluna_alvo, op) ==
    IF coluna_alvo = "job_id"
    THEN "Contagem_Jobs_Unicos"
    ELSE Capitalize(op) \o "_" \o coluna_alvo

---------------------------------------------------------------------------
(* run_analytics_query: construction of the query *)

Ext(name, cast, field) == [name |-> name, cast |-> cast, field |-> field]

(* Variant: usuario_executor also gets a not-null filter *)
BaseColumns_FilterUser(operacao, nome_coluna, analisar_por_job) ==
    [group_by_columns   |-> <<"projeto", "usuario_executor">>,
     extend_expressions |-> <<Ext("projeto", "tostring", "projeto"),
                              Ext("usuario_executor", "tostring", "usuario_executor")>>,
     where_conditions   |-> <<"projeto", "usuario_executor">>,
     daily_order_by_kql |-> <<>>,
     operacao           |-> operacao,
     nome_coluna        |-> nome_coluna,
     analisar_por_job   |-> analisar_por_job,
     error              |-> NoError]

(* Steps 1-3 and the usuario_executor rule: the locals before any flag is read *)
BaseColumns(operacao, nome_coluna, analisar_por_job) ==
    [group_by_columns   |-> <<"projeto", "usuario_executor">>,
     extend_expressions |-> <<Ext("projeto", "tostring", "projeto"),
                              Ext("usuario_executor", "tostring", "usuario_executor")>>,
     where_conditions   |-> <<"projeto">>,
     daily_order_by_kql |-> <<>>,
     operacao           |-> operacao,
     nome_coluna        |-> nome_coluna,
     analisar_por_job   |-> analisar_por_job,
     error              |-> NoError]

(* Variant: model_name grouped without its not-null filter *)
ModelStep_NoFilter(b, agrupar_por_modelo) ==
    IF agrupar_por_modelo
    THEN [b EXCEPT
            !.group_by_columns   = Append(@, "model_name"),
            !.extend_expressions = Append(@, Ext("model_name", "tostring", "model_name"))]
    ELSE b

(* Step 4: model_name *)
ModelStep(b, agrupar_por_modelo) ==
    IF agrupar_por_modelo
    THEN [b EXCEPT
            !.group_by_columns   = Append(@, "model_name"),
            !.extend_expressions = Append(@, Ext("model_name", "tostring", "model_name")),
            !.where_conditions   = Append(@, "model_name")]
    ELSE b

(* Variant: dia grouped without the not-null filter on data_hora *)
DailyStep_NoFilter(b, resultado_diario) ==
    IF resultado_diario
    THEN [b EXCEPT
            !.group_by_columns   = Append(@, "dia"),
            !.extend_expressions = Append(@, Ext("dia", "bin(todatetime, 1d)", "data_hora")),
            !.daily_order_by_kql = <<[column |-> "dia", dir |-> "asc"]>>]
    ELSE b

(* Step 5: resultado_diario *)
DailyStep(b, resultado_diario) ==
    IF resultado_diario
    THEN [b EXCEPT
            !.group_by_columns   = Append(@, "dia"),
            !.extend_expressions = Append(@, Ext("dia", "bin(todatetime, 1d)", "data_hora")),
            !.where_conditions   = Append(@, "data_hora"),
            !.daily_order_by_kql = <<[column |-> "dia", dir |-> "asc"]>>]
    ELSE b

(* Variant: analisar_por_job is not switched off for job_id *)
MetricStep_KeepJobFlag(b, coluna_alvo) ==
    IF coluna_alvo = "job_id"
    THEN IF b.operacao \notin {"count", "dcount"}
         THEN [b EXCEPT !.error = metric_job_id_requires_count_or_dcount]
         ELSE [b EXCEPT
                 !.operacao           = "dcount",
                 !.nome_coluna        = "Contagem_Jobs_Unicos",
                 !.extend_expressions = Append(@, Ext(coluna_alvo, "tostring", coluna_alvo)),
                 !.where_conditions   = Append(@, coluna_alvo)]
    ELSE [b EXCEPT
            !.extend_expressions = Append(@, Ext(coluna_alvo, "todouble", coluna_alvo)),
            !.where_conditions   = Append(@, coluna_alvo)]

(* Variant: the operation is not validated for job_id *)
MetricStep_NoValidation(b, coluna_alvo) ==
    IF coluna_alvo = "job_id"
    THEN [b EXCEPT
            !.operacao           = "dcount",
            !.nome_coluna        = "Contagem_Jobs_Unicos",
            !.extend_expressions = Append(@, Ext(coluna_alvo, "tostring", coluna_alvo)),
            !.where_conditions   = Append(@, coluna_alvo),
            !.analisar_por_job   = FALSE]
    ELSE [b EXCEPT
            !.extend_expressions = Append(@, Ext(coluna_alvo, "todouble", coluna_alvo)),
            !.where_conditions   = Append(@, coluna_alvo)]

(* Step 6: coluna_alvo *)
MetricStep(b, coluna_alvo) ==
    IF coluna_alvo = "job_id"
    THEN IF b.operacao \notin {"count", "dcount"}
         THEN [b EXCEPT !.error = metric_job_id_requires_count_or_dcount]
         ELSE [b EXCEPT
                 !.operacao           = "dcount",
                 !.nome_coluna        = "Contagem_Jobs_Unicos",
                 !.extend_expressions = Append(@, Ext(coluna_alvo, "tostring", coluna_alvo)),
                 !.where_conditions   = Append(@, coluna_alvo),
                 !.analisar_por_job   = FALSE]
    ELSE [b EXCEPT
            !.extend_expressions = Append(@, Ext(coluna_alvo, "todouble", coluna_alvo)),
            !.where_conditions   = Append(@, coluna_alvo)]

(* Variant: the metric sort is emitted before the daily sort *)
order_by_clause_MetricFirst(b) ==
    <<[column |-> "projeto", dir |-> "asc"]>>
    \o <<[column |-> b.nome_coluna, dir |-> "desc"]>>
    \o b.daily_order_by_kql

(* Step 7: order_by_clause = "projeto asc, {daily_order_by_kql}{nome_coluna} desc" *)
order_by_clause(b) ==
    <<[column |-> "projeto", dir |-> "asc"]>>
    \o b.daily_order_by_kql
    \o <<[column |-> b.nome_coluna, dir |-> "desc"]>>

(* Variant: sum is rejected in the single-stage branch as well *)
StandardQuery_RejectSum(b, coluna_alvo) ==
    IF b.operacao = "sum"
    THEN [error |-> sum_incompatible_with_job_analysis, kql_query |-> EmptyQuery]
    ELSE [error |-> NoError,
          kql_query |->
            [extend    |-> b.extend_expressions,
             where     |-> b.where_conditions,
             summarize |-> <<[output |-> b.nome_coluna, fn |-> b.operacao,
                              input |-> coluna_alvo, by |-> b.group_by_columns]>>,
             order_by  |-> order_by_clause(b)]]

(* not analisar_por_job: one summarize *)
StandardQuery(b, coluna_alvo) ==
    [error |-> NoError,
     kql_query |->
        [extend    |-> b.extend_expressions,
         where     |-> b.where_conditions,
         summarize |-> <<[output |-> b.nome_coluna, fn |-> b.operacao,
                          input |-> coluna_alvo, by |-> b.group_by_columns]>>,
         order_by  |-> order_by_clause(b)]]

(* Variant: stage 1 grouped by the base keys only *)
JobQuery_NoJobKey(b, coluna_alvo) ==
    IF b.operacao = "sum"
    THEN [error |-> sum_incompatible_with_job_analysis, kql_query |-> EmptyQuery]
    ELSE [error |-> NoError,
          kql_query |->
            [extend    |-> Append(b.extend_expressions, Ext("job_id", "tostring", "job_id")),
             where     |-> Append(b.where_conditions, "job_id"),
             summarize |-> <<[output |-> "job_token_total", fn |-> "sum",
                              input |-> coluna_alvo,
                              by |-> b.group_by_columns],
                             [output |-> b.nome_coluna, fn |-> b.operacao,
                              input |-> "job_token_total",
                              by |-> b.group_by_columns]>>,
             order_by  |-> order_by_clause(b)]]

(* Variant: sum is let through the job-level branch *)
JobQuery_NoSumCheck(b, coluna_alvo) ==
    [error |-> NoError,
     kql_query |->
        [extend    |-> Append(b.extend_expressions, Ext("job_id", "tostring", "job_id")),
         where     |-> Append(b.where_conditions, "job_id"),
         summarize |-> <<[output |-> "job_token_total", fn |-> "sum",
                          input |-> coluna_alvo,
                          by |-> b.group_by_columns \o <<"job_id">>],
                         [output |-> b.nome_coluna, fn |-> b.operacao,
                          input |-> "job_token_total",
                          by |-> b.group_by_columns]>>,
         order_by  |-> order_by_clause(b)]]

(* Variant: job_id is filtered and grouped but never derived *)
JobQuery_NoJobDerive(b, coluna_alvo) ==
    IF b.operacao = "sum"
    THEN [error |-> sum_incompatible_with_job_analysis, kql_query |-> EmptyQuery]
    ELSE [error |-> NoError,
          kql_query |->
            [extend    |-> b.extend_expressions,
             where     |-> Append(b.where_conditions, "job_id"),
             summarize |-> <<[output |-> "job_token_total", fn |-> "sum",
                              input |-> coluna_alvo,
                              by |-> b.group_by_columns \o <<"job_id">>],
                             [output |-> b.nome_coluna, fn |-> b.operacao,
                              input |-> "job_token_total",
                              by |-> b.group_by_columns]>>,
             order_by  |-> order_by_clause(b)]]

(* analisar_por_job: two chained summarizes *)
JobQuery(b, coluna_alvo) ==
    IF b.operacao = "sum"
    THEN [error |-> sum_incompatible_with_job_analysis, kql_query |-> EmptyQuery]
    ELSE [error |-> NoError,
          kql_query |->
            [extend    |-> Append(b.extend_expressions, Ext("job_id", "tostring", "job_id")),
             where     |-> Append(b.where_conditions, "job_id"),
             summarize |-> <<[output |-> "job_token_total", fn |-> "sum",
                              input |-> coluna_alvo,
                              by |-> b.group_by_columns \o <<"job_id">>],
                             [output |-> b.nome_coluna, fn |-> b.operacao,
                              input |-> "job_token_total",
                              by |-> b.group_by_columns]>>,
             order_by  |-> order_by_clause(b)]]

(* Lines 57-164 of run_analytics_query: the error raised or the query built *)
BuildQuery(coluna_alvo, operacao, nome_coluna, agrupar_por_modelo, analisar_por_job, resultado_diario) ==
    LET b == MetricStep(
               DailyStep(
                 ModelStep(BaseColumns(operacao, nome_coluna, analisar_por_job),
                           agrupar_por_modelo),
                 resultado_diario),
               coluna_alvo)
    IN  IF b.error /= NoError
        THEN [error |-> b.error, kql_query |-> EmptyQuery]
        ELSE IF ~b.analisar_por_job
             THEN StandardQuery(b, coluna_alvo)
             ELSE JobQuery(b, coluna_alvo)

(* get_stats handing its parameters to run_analytics_query *)
BuildFor(req) ==
    BuildQuery(req.coluna_alvo, req.op, coluna_saida(req.coluna_alvo, req.op),
               req.agrupar_por_modelo, req.analisar_por_job, req.resultado_diario)

---------------------------------------------------------------------------
(* State machine *)

Init ==
    /\ app_insights_workspace_id \in {"", "workspace"}
    /\ pc = "idle"
    /\ request = NoRequest
    /\ kql_query = EmptyQuery
    /\ response = NoResponse

(* GET /get_token_stats arrives: parameter validation, query construction,   *)
(* the workspace check, and the call to the log store being issued.          *)
GetStats(req) ==
    /\ pc = "idle"
    /\ request' = req
    /\ IF req.dias <= 0
       THEN /\ kql_query' = EmptyQuery
            /\ response' = [status |-> dias_validation_error.status,
                            detail |-> dias_validation_error.detail, records |-> 0]
            /\ pc' = "responded"
       ELSE LET r == BuildFor(req) IN
            IF r.error /= NoError
            THEN /\ kql_query' = EmptyQuery
                 /\ response' = [status |-> r.error.status,
                                 detail |-> r.error.detail, records |-> 0]
                 /\ pc' = "responded"
            ELSE /\ kql_query' = r.kql_query
                 /\ IF app_insights_workspace_id = ""
                    THEN /\ response' = [status |-> workspace_not_configured.status,
                                         detail |-> workspace_not_configured.detail,
                                         records |-> 0]
                         /\ pc' = "responded"
                    ELSE /\ response' = NoResponse
                         /\ pc' = "querying"
    /\ UNCHANGED app_insights_workspace_id

(* logs_client.query_workspace returns a table, which becomes the records *)
QueryReturnsTable(n) ==
    /\ pc = "querying"
    /\ response' = [status |-> 200, detail |-> "", records |-> n]
    /\ pc' = "responded"
    /\ UNCHANGED <<app_insights_workspace_id, request, kql_query>>

(* logs_client.query_workspace returns no tables: [] *)
QueryReturnsNoTables ==
    /\ pc = "querying"
    /\ response' = [status |-> 200, detail |-> "", records |-> 0]
    /\ pc' = "responded"
    /\ UNCHANGED <<app_insights_workspace_id, request, kql_query>>

(* logs_client.query_workspace raises: 500 *)
QueryFails ==
    /\ pc = "querying"
    /\ response' = [status |-> query_failed.status,
                    detail |-> query_failed.detail, records |-> 0]
    /\ pc' = "responded"
    /\ UNCHANGED <<app_insights_workspace_id, request, kql_query>>

(* The response leaves; the locals of the call are gone *)
Return ==
    /\ pc = "responded"
    /\ pc' = "idle"
    /\ request' = NoRequest
    /\ kql_query' = EmptyQuery
    /\ response' = NoResponse
    /\ UNCHANGED app_insights_workspace_id

Next ==
    \/ \E req \in Requests : GetStats(req)
    \/ \E n \in 0 .. MaxRows : QueryReturnsTable(n)
    \/ QueryReturnsNoTables
    \/ QueryFails
    \/ Return

Spec == Init /\ [][Next]_vars

---------------------------------------------------------------------------
(* Vocabulary of the properties *)

(* The query construction ran for the request in `request` *)
Served == pc /= "idle" /\ request.dias > 0

HasPlan == kql_query /= EmptyQuery

Raised(e) == response.status = e.status /\ response.detail = e.detail

IsValidationError == response.status = 400

NumStages == Len(kql_query.summarize)

FinalStage == kql_query.summarize[NumStages]

Range(seq) == {seq[i] : i \in 1 .. Len(seq)}

DerivedNames == {e.name : e \in Range(kql_query.extend)}

DerivedFields == {e.field : e \in Range(kql_query.extend)}

Filters == Range(kql_query.where)

StageKeys(i) == Range(kql_query.summarize[i].by)

NumericMetric == request.coluna_alvo \in {"tokens_entrada", "tokens_saida"}

---------------------------------------------------------------------------
(* C1: metric job_id with count or dcount always yields a plan with a      *)
(* single dcount stage writing Contagem_Jobs_Unicos, and analisar_por_job   *)
(* is dropped: the plan is the one built with analisar_por_job = FALSE.     *)
C1_JobIdPlan ==
    (Served /\ request.coluna_alvo = "job_id" /\ request.op \in {"count", "dcount"})
    => /\ HasPlan
       /\ ~IsValidationError
       /\ NumStages = 1
       /\ kql_query.summarize[1].fn = "dcount"
       /\ kql_query.summarize[1].input = "job_id"
       /\ kql_query.summarize[1].output = "Contagem_Jobs_Unicos"
       /\ kql_query = BuildFor([request EXCEPT !.analisar_por_job = FALSE]).kql_query

C1_Witness ==
    /\ Served /\ HasPlan
    /\ request.coluna_alvo = "job_id" /\ request.op = "count"
    /\ request.analisar_por_job
    /\ NumStages = 1

(* C2: job analysis on a token metric yields two stages: sum of the metric *)
(* into job_token_total by the group keys plus job_id, then the requested   *)
(* operation over job_token_total by the group keys.                        *)
C2_TwoStages ==
    (Served /\ HasPlan /\ request.analisar_por_job /\ NumericMetric)
    => /\ NumStages = 2
       /\ kql_query.summarize[1].fn = "sum"
       /\ kql_query.summarize[1].input = request.coluna_alvo
       /\ kql_query.summarize[1].output = "job_token_total"
       /\ kql_query.summarize[2].fn = request.op
       /\ kql_query.summarize[2].input = "job_token_total"
       /\ kql_query.summarize[1].by = kql_query.summarize[2].by \o <<"job_id">>
       /\ "job_id" \notin StageKeys(2)

C2_Witness ==
    /\ Served /\ HasPlan
    /\ request.analisar_por_job /\ request.coluna_alvo = "tokens_saida"
    /\ request.op = "avg" /\ request.agrupar_por_modelo /\ request.resultado_diario
    /\ NumStages = 2

(* C3: sum with job analysis on a token metric is rejected with the        *)
(* sum/job-analysis error and no plan; sum without job analysis is not.     *)
C3_SumRejected ==
    /\ (Served /\ request.op = "sum" /\ request.analisar_por_job /\ NumericMetric)
       => (Raised(sum_incompatible_with_job_analysis) /\ ~HasPlan)
    /\ (Served /\ request.op = "sum" /\ ~request.analisar_por_job /\ NumericMetric)
       => (HasPlan /\ ~IsValidationError)

C3_Witness ==
    /\ Served /\ pc = "responded"
    /\ request.op = "sum" /\ request.analisar_por_job
    /\ request.coluna_alvo = "tokens_saida"
    /\ Raised(sum_incompatible_with_job_analysis)

(* C4: metric job_id with avg, sum, min or max is rejected with the job_id *)
(* error and no plan, whatever the flags; with sum and job analysis it is   *)
(* this error, not the sum/job-analysis one.                                *)
C4_JobIdRejected ==
    (Served /\ request.coluna_alvo = "job_id" /\ request.op \notin {"count", "dcount"})
    => /\ Raised(metric_job_id_requires_count_or_dcount)
       /\ ~Raised(sum_incompatible_with_job_analysis)
       /\ ~HasPlan

C4_Witness ==
    /\ Served /\ pc = "responded"
    /\ request.coluna_alvo = "job_id" /\ request.op = "sum"
    /\ request.analisar_por_job
    /\ Raised(metric_job_id_requires_count_or_dcount)

(* C5: a well-typed request ends in exactly one of a plan or a validation  *)
(* error, and the error occurs exactly for job_id with an operation other   *)
(* than count/dcount, or a token metric with job analysis and sum.          *)
C5_ErrorIff ==
    Served
    => /\ HasPlan /= IsValidationError
       /\ IsValidationError
            => \/ Raised(metric_job_id_requires_count_or_dcount)
               \/ Raised(sum_incompatible_with_job_analysis)
       /\ IsValidationError
            <=> \/ (request.coluna_alvo = "job_id"
                    /\ request.op \notin {"count", "dcount"})
                \/ (request.coluna_alvo /= "job_id"
                    /\ request.analisar_por_job /\ request.op = "sum")

C5_Witness ==
    /\ Served /\ HasPlan /\ ~IsValidationError
    /\ request.op = "sum" /\ ~request.analisar_por_job
    /\ request.coluna_alvo = "tokens_entrada"

(* C6: the order spec of every plan is projeto asc, then dia asc exactly   *)
(* when daily, then the output column desc, the output column being the     *)
(* one the final stage writes (Contagem_Jobs_Unicos for job_id).            *)
C6_OrderSpec ==
    (Served /\ HasPlan)
    => /\ kql_query.order_by =
            <<[column |-> "projeto", dir |-> "asc"]>>
            \o (IF request.resultado_diario
                THEN <<[column |-> "dia", dir |-> "asc"]>> ELSE <<>>)
            \o <<[column |-> FinalStage.output, dir |-> "desc"]>>
       /\ FinalStage.output = coluna_saida(request.coluna_alvo, request.op)
       /\ request.coluna_alvo = "job_id" => FinalStage.output = "Contagem_Jobs_Unicos"

C6_Witness ==
    /\ Served /\ HasPlan
    /\ request.resultado_diario /\ request.analisar_por_job
    /\ request.coluna_alvo = "tokens_entrada" /\ request.op = "max"
    /\ Len(kql_query.order_by) = 3
    /\ kql_query.order_by[3].column = "Max_tokens_entrada"

(* C7: every field a filter tests is the source of a derived column, every *)
(* group key is a derived column, and every stage input is a derived        *)
(* column, except job_token_total, which stage 1 writes and stage 2 reads.  *)
C7_ColumnsDerived ==
    (Served /\ HasPlan)
    => /\ Filters \subseteq DerivedFields
       /\ \A i \in 1 .. NumStages : StageKeys(i) \subseteq DerivedNames
       /\ \A i \in 1 .. NumStages :
            \/ kql_query.summarize[i].input \in DerivedNames
            \/ /\ i = 2
               /\ kql_query.summarize[i].input = "job_token_total"
               /\ kql_query.summarize[1].output = "job_token_total"
       /\ "job_token_total" \notin DerivedNames
       /\ request.resultado_diario
            => /\ "data_hora" \in Filters
               /\ "data_hora" \notin DerivedNames
               /\ \E e \in Range(kql_query.extend) :
                    e.name = "dia" /\ e.field = "data_hora"

C7_Witness ==
    /\ Served /\ HasPlan
    /\ request.resultado_diario /\ request.analisar_por_job
    /\ request.agrupar_por_modelo
    /\ NumStages = 2
    /\ "job_id" \in StageKeys(1)
    /\ "data_hora" \in Filters

(* C8: in every plan usuario_executor is derived and a group key of every  *)
(* stage and no filter tests it; projeto is derived, grouped and filtered,  *)
(* so the filter list is never empty.                                       *)
C8_ExecutingUser ==
    (Served /\ HasPlan)
    => /\ "usuario_executor" \in DerivedNames
       /\ \A i \in 1 .. NumStages : "usuario_executor" \in StageKeys(i)
       /\ "usuario_executor" \notin Filters
       /\ "projeto" \in DerivedNames
       /\ \A i \in 1 .. NumStages : "projeto" \in StageKeys(i)
       /\ "projeto" \in Filters
       /\ Len(kql_query.where) > 0

C8_Witness ==
    /\ Served /\ HasPlan
    /\ NumStages = 2
    /\ request.agrupar_por_modelo /\ request.resultado_diario
    /\ "usuario_executor" \in StageKeys(1) \cap StageKeys(2)

(* C9: model_name is derived, grouped and filtered exactly when            *)
(* agrupar_por_modelo is set, whatever the other parameters.                *)
C9_ModelGrouping ==
    (Served /\ HasPlan)
    => IF request.agrupar_por_modelo
       THEN /\ "model_name" \in DerivedNames
            /\ \A i \in 1 .. NumStages : "model_name" \in StageKeys(i)
            /\ "model_name" \in Filters
       ELSE /\ "model_name" \notin DerivedNames
            /\ "model_name" \notin DerivedFields
            /\ \A i \in 1 .. NumStages : "model_name" \notin StageKeys(i)
            /\ "model_name" \notin Filters

C9_Witness ==
    /\ Served /\ HasPlan
    /\ request.agrupar_por_modelo
    /\ request.coluna_alvo = "job_id"
    /\ "model_name" \in Filters /\ "model_name" \in StageKeys(1)

(* C10: with daily the dia column (data_hora truncated to one day) is      *)
(* derived, a key of every stage, data_hora is filtered and dia asc stands  *)
(* in the order spec before the final entry; without daily none of these.   *)
C10_DailyBucket ==
    (Served /\ HasPlan)
    => IF request.resultado_diario
       THEN /\ Ext("dia", "bin(todatetime, 1d)", "data_hora") \in Range(kql_query.extend)
            /\ \A i \in 1 .. NumStages : "dia" \in StageKeys(i)
            /\ "data_hora" \in Filters
            /\ \E i \in 1 .. (Len(kql_query.order_by) - 1) :
                    kql_query.order_by[i] = [column |-> "dia", dir |-> "asc"]
            /\ kql_query.order_by[Len(kql_query.order_by)].column = FinalStage.output
       ELSE /\ "dia" \notin DerivedNames
            /\ "data_hora" \notin DerivedFields
            /\ \A i \in 1 .. NumStages : "dia" \notin StageKeys(i)
            /\ "data_hora" \notin Filters
            /\ \A i \in 1 .. Len(kql_query.order_by) :
                    kql_query.order_by[i].column /= "dia"

C10_Witness ==
    /\ Served /\ HasPlan
    /\ request.resultado_diario /\ request.analisar_por_job
    /\ NumStages = 2
    /\ "dia" \in StageKeys(1) \cap StageKeys(2)
    /\ kql_query.order_by[2] = [column |-> "dia", dir |-> "asc"]

=============================================================================
